---- MODULE Spec2Model ----
(***************************************************************************)
(* A model of render_images.py: the constrained random placement of        *)
(* add_random_objects, the camera loop of render_scene with its render     *)
(* retry loop and manifest, and compute_all_relationships.                 *)
(*                                                                         *)
(* Lengths are integers in one common unit.  A radius is a pair <<a, b>>   *)
(* standing for the real number a + b/sqrt(2), so that the Cube adjustment *)
(* r /= sqrt(2) and the comparison of line 336 are computed exactly.       *)
(***************************************************************************)
EXTENDS Integers, Sequences, FiniteSets, TLC

\* ------------------------------------------------------------------ bounds
MaxObjects == 2
MaxRetries == 2
MaxRestarts == 1
MaxCams == 17
MaxFailures == 1
MaxRelObjects == 3
MaxRelCalls == 2

\* ------------------------------------------------------- program constants
num_heights == 8
BaseSceneObjects == 7

\* Values random.uniform(-3, 3) is sampled at.
Coords == {-3, -2, 3}

None == "None"

Range(s) == {s[k] : k \in 1..Len(s)}

\* ------------------------------------------------------------ catalog data
\* properties.json: shapes map an output name to a blend name, sizes a name
\* to a scale, materials an output name to a blend name.
FullProperties ==
  [ shapes    |-> {<<"cube", "Cube">>, <<"sphere", "Sphere">>},
    colors    |-> {"red", "blue"},
    materials |-> {<<"rubber", "Rubber">>},
    sizes     |-> {<<"small", 2>>, <<"large", 3>>} ]

OneColorProperties ==
  [ shapes    |-> {<<"cube", "Cube">>, <<"sphere", "Sphere">>},
    colors    |-> {"red"},
    materials |-> {<<"rubber", "Rubber">>},
    sizes     |-> {<<"small", 2>>, <<"large", 3>>} ]

TwoSizeProperties ==
  [ shapes    |-> {<<"sphere", "Sphere">>},
    colors    |-> {"red"},
    materials |-> {<<"rubber", "Rubber">>},
    sizes     |-> {<<"small", 2>>, <<"large", 3>>} ]

SmallProperties ==
  [ shapes    |-> {<<"sphere", "Sphere">>},
    colors    |-> {"red"},
    materials |-> {<<"rubber", "Rubber">>},
    sizes     |-> {<<"large", 3>>} ]

\* shape_color_combos_json: the option absent (shape_color_combos is None), a
\* table the catalog resolves, a table naming a shape the catalog lacks, a
\* table naming a color the catalog lacks.
NoCombos == [given |-> FALSE, items |-> {}]
GoodCombos == [given |-> TRUE, items |-> {<<"cube", {"red"}>>}]
BadShapeCombos == [given |-> TRUE, items |-> {<<"cube", {"red"}>>, <<"pyramid", {"red"}>>}]
BadColorCombos == [given |-> TRUE, items |-> {<<"sphere", {"red", "green"}>>}]

VARIABLES
  args, properties,                       \* inputs of the run
  pc,                                     \* position in the program
  j, i, filepath, camera,                 \* render_scene: camera loop
  frames, images, written, log,           \* manifest, image files, json file, printed errors
  poses,                                  \* the poses the camera loop has set, in order
  calls, returns,                         \* add_random_objects: times called, returned
  ret_objects, ret_blender_objects,       \* what add_random_objects returned
  scene,                                  \* bpy.data.objects beyond the base scene
  positions, objects, blender_objects,    \* add_random_objects: its three lists
  obj_i, size_name, r, num_tries, x, y,   \* add_random_objects: loop locals
  restarts, discarded,                    \* invocations abandoned, handles deleted
  scene_struct, eps, all_relationships,   \* compute_all_relationships
  rel_calls                               \* compute_all_relationships: times called

vars == << args, properties, pc, j, i, filepath, camera, frames, images, written,
           log, poses, calls, returns, ret_objects, ret_blender_objects, scene, positions, objects,
           blender_objects, obj_i, size_name, r, num_tries, x, y, restarts,
           discarded, scene_struct, eps, all_relationships, rel_calls >>

inputVars == << args, properties >>
driverVars == << j, i, filepath, camera, frames, images, written, log, poses >>
retVars == << calls, returns, ret_objects, ret_blender_objects >>
placeVars == << positions, objects, blender_objects, obj_i, size_name, r,
                num_tries, x, y, restarts, discarded >>
relVars == << scene_struct, eps, all_relationships, rel_calls >>

\* --------------------------------------------------------------- geometry
\* sqrt(d2) < c + b/sqrt(2), for integers d2 >= 0, b >= 0 and any integer c.
SqrtLess(d2, c, b) ==
  LET X == 2 * d2 - 2 * c * c - b * b
      Y == 2 * c * b
  IN  IF c >= 0
        THEN X < 0 \/ X * X < 2 * Y * Y
        ELSE b * b > 2 * c * c /\ X < 0 /\ X * X > 2 * Y * Y

\* dist - ra - rb < min_dist, with dist = math.sqrt(dx * dx + dy * dy).
TooClose(dx, dy, ra, rb, min_dist) ==
  SqrtLess(dx * dx + dy * dy, min_dist + ra[1] + rb[1], ra[2] + rb[2])

\* r /= math.sqrt(2), applied to a size scale <<s, 0>>.
DivSqrt2(rad) == <<0, rad[1]>>

\* Mutant of dists_good: the radius rr of the placed object is left out of the
\* comparison (dist - r < min_dist).
dists_good_no_rr(cx, cy, cr, pos, min_dist) ==
  \A k \in 1..Len(pos) :
    ~ TooClose(cx - pos[k][1], cy - pos[k][2], cr, <<0, 0>>, min_dist)

\* Mutant of dists_good: the comparison is the wrong way round, a candidate
\* is kept when it is too close to every placed object.
dists_good_inverted(cx, cy, cr, pos, min_dist) ==
  \A k \in 1..Len(pos) :
    TooClose(cx - pos[k][1], cy - pos[k][2], cr, pos[k][3], min_dist)

\* The for loop over positions that sets dists_good.
dists_good(cx, cy, cr, pos, min_dist) ==
  \A k \in 1..Len(pos) :
    ~ TooClose(cx - pos[k][1], cy - pos[k][2], cr, pos[k][3], min_dist)


\* ------------------------------------------------------ add_random_objects
object_mapping == {<<sh[2], sh[1]>> : sh \in properties.shapes}
material_mapping == {<<m[2], m[1]>> : m \in properties.materials}
size_mapping == properties.sizes

\* Mutant of ColorChoices: the color is drawn from the whole catalog.
ColorChoicesCatalog(combo) == properties.colors

\* The list random.choice(color_choices) draws from, for a drawn table entry.
ColorChoices(combo) == combo[2]

\* [k for k, v in object_mapping if v == obj_name_out]
NamesOf(obj_name_out) == {om[1] : om \in {m \in object_mapping : m[2] = obj_name_out}}

\* The handle bpy.context.object gives for the object add_object created.
NewHandle == <<restarts, obj_i>>

\* The draws of lines 345-352, each <<obj_name_out, the blend names found for
\* it, color_name>>: shape and color from the catalog when shape_color_combos
\* is None, else an entry of the table and a color of its list.
AttrDraws ==
  IF ~ args.shape_color_combos.given
    THEN {<<om[2], {om[1]}, c>> : om \in object_mapping, c \in properties.colors}
    ELSE UNION {{<<combo[1], NamesOf(combo[1]), c>> : c \in ColorChoices(combo)} :
                  combo \in args.shape_color_combos.items}

\* A draw the catalog resolves: line 351 finds a blend name, line 352 an rgba.
Resolved(d) == d[2] # {} /\ d[3] \in properties.colors

\* Mutant of DeleteAll: the objects of the abandoned invocation stay.
DeleteNone(scn, handles) == scn

\* for obj in blender_objects: utils.delete_object(obj)
DeleteAll(scn, handles) == scn \ Range(handles)

\* Mutant of Invoke: the three lists outlive the invocation (as lists shared
\* between invocations would).
InvokeKeepLists ==
  /\ UNCHANGED << positions, objects, blender_objects >>
  /\ obj_i' = 0
  /\ size_name' = None
  /\ r' = <<0, 0>>
  /\ num_tries' = 0
  /\ x' = 0
  /\ y' = 0
  /\ pc' = "for"

\* The state of a fresh invocation: the three empty lists, range(num_objects)
\* at its first index.  Locals not yet assigned hold their blank values.
Invoke ==
  /\ positions' = << >>
  /\ objects' = << >>
  /\ blender_objects' = << >>
  /\ obj_i' = 0
  /\ size_name' = None
  /\ r' = <<0, 0>>
  /\ num_tries' = 0
  /\ x' = 0
  /\ y' = 0
  /\ pc' = "for"

\* size_name, r = random.choice(size_mapping); num_tries = 0
ChooseSize ==
  /\ pc = "for"
  /\ obj_i < args.num_objects
  /\ \E sz \in size_mapping :
       /\ size_name' = sz[1]
       /\ r' = <<sz[2], 0>>
  /\ num_tries' = 0
  /\ pc' = "try"
  /\ UNCHANGED << inputVars, driverVars, retVars, scene, positions, objects,
                  blender_objects, obj_i, x, y, restarts, discarded, relVars >>

\* Mutant of TriesExceeded: the test is num_tries >= max_retries.
TriesExceeded_geq(tries, max_retries) == tries >= max_retries

\* if num_tries > args.max_retries, on the count the pass has just
\* incremented.
TriesExceeded(tries, max_retries) == tries > max_retries

\* One pass of the while loop that draws a candidate: num_tries += 1, the
\* draw of x and y, the distance check, and the break when dists_good.
Candidate ==
  /\ pc = "try"
  /\ ~ TriesExceeded(num_tries + 1, args.max_retries)
  /\ num_tries' = num_tries + 1
  /\ \E cx \in Coords, cy \in Coords :
       IF dists_good(cx, cy, r, positions, args.min_dist)
         THEN x' = cx /\ y' = cy /\ pc' = "attrs"
         ELSE UNCHANGED << x, y, pc >>
  /\ UNCHANGED << inputVars, driverVars, retVars, scene, positions, objects,
                  blender_objects, obj_i, size_name, r, restarts, discarded, relVars >>

\* The pass of the while loop in which num_tries exceeds max_retries: every
\* object of blender_objects is deleted and add_random_objects is invoked
\* again, its result being returned unchanged.
Exhausted ==
  /\ pc = "try"
  /\ TriesExceeded(num_tries + 1, args.max_retries)
  /\ restarts < MaxRestarts
  /\ scene' = DeleteAll(scene, blender_objects)
  /\ discarded' = discarded \cup Range(blender_objects)
  /\ restarts' = restarts + 1
  /\ Invoke
  /\ UNCHANGED << inputVars, driverVars, retVars, relVars >>

\* Exhausted once the model's count of restarts has reached its bound: the
\* same deletion and fresh invocation, the count left where it is (handles
\* of deleted objects are then given again).  Only the specification of
\* termination, which needs restarts without end, takes this step.
ExhaustedPastBound ==
  /\ pc = "try"
  /\ TriesExceeded(num_tries + 1, args.max_retries)
  /\ restarts >= MaxRestarts
  /\ scene' = DeleteAll(scene, blender_objects)
  /\ discarded' = discarded \cup Range(blender_objects)
  /\ restarts' = restarts
  /\ Invoke
  /\ UNCHANGED << inputVars, driverVars, retVars, relVars >>

\* Lines 343-382 without an exception: the draw of shape and color, the Cube
\* adjustment, add_object, the appends to blender_objects and positions, the
\* material, the append of the object record.
AddObject ==
  /\ pc = "attrs"
  /\ \E d \in AttrDraws, mat \in material_mapping :
       /\ Resolved(d)
       /\ \E obj_name \in d[2] :
            LET r2 == IF obj_name = "Cube" THEN DivSqrt2(r) ELSE r
            IN  /\ r' = r2
                /\ scene' = scene \cup {NewHandle}
                /\ blender_objects' = Append(blender_objects, NewHandle)
                /\ positions' = Append(positions, <<x, y, r2>>)
                /\ objects' = Append(objects,
                     [ shape |-> d[1], size |-> size_name, material |-> mat[2],
                       coords |-> <<x, y>>, color |-> d[3] ])
  /\ obj_i' = obj_i + 1
  /\ pc' = "for"
  /\ UNCHANGED << inputVars, driverVars, retVars, size_name, num_tries, x, y,
                  restarts, discarded, relVars >>

\* Lines 349-352 raising: the drawn table shape has no entry in object_mapping
\* (IndexError, line 351) or the drawn color none in color_name_to_rgba
\* (KeyError, line 352).  Nothing catches it; the run ends.
AttrError ==
  /\ pc = "attrs"
  /\ \E d \in AttrDraws : ~ Resolved(d)
  /\ pc' = "error"
  /\ UNCHANGED << inputVars, driverVars, retVars, scene, placeVars, relVars >>

\* The for loop is over: return objects, blender_objects (line 395), assigned
\* by render_scene at line 261.
Return ==
  /\ pc = "for"
  /\ obj_i >= args.num_objects
  /\ ret_objects' = objects
  /\ ret_blender_objects' = blender_objects
  /\ returns' = returns + 1
  /\ pc' = "render"
  /\ UNCHANGED << inputVars, driverVars, calls, scene, placeVars, relVars >>

NextPlace ==
  \/ ChooseSize
  \/ Candidate
  \/ Exhausted
  \/ AddObject
  \/ AttrError
  \/ Return

\* ------------------------------------------------------------ render_scene
Args(nobj, retries, cams, combos) ==
  [ num_objects |-> nobj, max_retries |-> retries, min_dist |-> 1, margin |-> 2,
    num_cams |-> cams, shape_color_combos |-> combos ]

\* The locals of add_random_objects and the scene graph before any call.
BlankPlacement ==
  /\ calls = 0 /\ returns = 0
  /\ ret_objects = << >> /\ ret_blender_objects = << >>
  /\ scene = {}
  /\ positions = << >> /\ objects = << >> /\ blender_objects = << >>
  /\ obj_i = 0 /\ size_name = None /\ r = <<0, 0>> /\ num_tries = 0
  /\ x = 0 /\ y = 0
  /\ restarts = 0 /\ discarded = {}

BlankRelations ==
  /\ scene_struct = [objects |-> << >>, directions |-> {}]
  /\ eps = 0
  /\ all_relationships = {}
  /\ rel_calls = 0

\* The catalogs add_random_objects is run on: properties.json with the
\* shape_color_combos_json beside it.
PlaceCatalogs ==
  { <<OneColorProperties, NoCombos>>, <<FullProperties, GoodCombos>>,
    <<FullProperties, BadShapeCombos>>, <<FullProperties, BadColorCombos>> }

\* add_random_objects as render_scene calls it at line 261, in the first pass
\* of the camera loop of a run with num_cams = 8.
InitPlace ==
  /\ \E nobj \in 0..MaxObjects, retries \in 0..MaxRetries, cat \in PlaceCatalogs :
       /\ args = Args(nobj, retries, num_heights, cat[2])
       /\ properties = cat[1]
  /\ j = 0 /\ i = 0 /\ filepath = 0
  /\ camera = [tier |-> 0, az |-> -num_heights]
  /\ frames = << >> /\ images = << >> /\ written = << >> /\ log = 0
  /\ poses = << [file |-> 0, camera |-> [tier |-> 0, az |-> -num_heights]] >>
  /\ calls = 1 /\ returns = 0
  /\ ret_objects = << >> /\ ret_blender_objects = << >>
  /\ scene = {}
  /\ positions = << >> /\ objects = << >> /\ blender_objects = << >>
  /\ obj_i = 0 /\ size_name = None /\ r = <<0, 0>> /\ num_tries = 0
  /\ x = 0 /\ y = 0
  /\ restarts = 0 /\ discarded = {}
  /\ BlankRelations
  /\ pc = "for"

SpecPlace == InitPlace /\ [][NextPlace]_vars

\* ------------------------------------- add_random_objects under fair sampling
\* The draws of one slot that a plan fixes: a size of the catalog and a
\* candidate position.
PlanEntries == [ size : TwoSizeProperties.sizes, x : Coords, y : Coords ]

\* The entries of a plan pass the test of line 336 in order: each against the
\* recorded radii of the entries before it.
PlanFeasible(plan) ==
  \A b \in 1..Len(plan), a \in 1..Len(plan) :
    a < b => ~ TooClose(plan[b].x - plan[a].x, plan[b].y - plan[a].y,
                        <<plan[b].size[2], 0>>, <<plan[a].size[2], 0>>, 1)

RECURSIVE PlansOfLen(_)
PlansOfLen(n) ==
  IF n = 0 THEN {<< >>}
  ELSE {Append(q, e) : q \in PlansOfLen(n - 1), e \in PlanEntries}

\* The counts for which the region holds a placement, and one placement for
\* each: the configuration is feasible.
FeasibleCounts == {n \in 0..MaxObjects : \E plan \in PlansOfLen(n) : PlanFeasible(plan)}
PlanOf == [n \in FeasibleCounts |-> CHOOSE plan \in PlansOfLen(n) : PlanFeasible(plan)]

\* positions after the first k entries of the plan have been placed.
PlanPositions(plan, k) == [m \in 1..k |-> <<plan[m].x, plan[m].y, <<plan[m].size[2], 0>>>>]

\* With the first k entries of the plan placed, the size draw for slot k
\* gives the plan's size.
PlanSize(k) ==
  /\ k < args.num_objects
  /\ obj_i = k
  /\ positions = PlanPositions(PlanOf[args.num_objects], k)
  /\ ChooseSize
  /\ size_name' = PlanOf[args.num_objects][k + 1].size[1]

\* With the first k entries of the plan placed and the plan's size drawn, the
\* candidate draw for slot k gives the plan's position.
PlanCandidate(k) ==
  /\ k < args.num_objects
  /\ obj_i = k
  /\ positions = PlanPositions(PlanOf[args.num_objects], k)
  /\ size_name = PlanOf[args.num_objects][k + 1].size[1]
  /\ Candidate
  /\ pc' = "attrs"
  /\ x' = PlanOf[args.num_objects][k + 1].x
  /\ y' = PlanOf[args.num_objects][k + 1].y

NextLive ==
  \/ ChooseSize
  \/ Candidate
  \/ Exhausted
  \/ ExhaustedPastBound
  \/ AddObject
  \/ Return

\* A feasible configuration: a count the region can hold, max_retries >= 1.
InitLive ==
  /\ \E nobj \in FeasibleCounts, retries \in {1, MaxRetries} :
       args = Args(nobj, retries, num_heights, NoCombos)
  /\ properties = TwoSizeProperties
  /\ j = 0 /\ i = 0 /\ filepath = 0
  /\ camera = [tier |-> 0, az |-> -num_heights]
  /\ frames = << >> /\ images = << >> /\ written = << >> /\ log = 0
  /\ poses = << [file |-> 0, camera |-> [tier |-> 0, az |-> -num_heights]] >>
  /\ calls = 1 /\ returns = 0
  /\ ret_objects = << >> /\ ret_blender_objects = << >>
  /\ scene = {}
  /\ positions = << >> /\ objects = << >> /\ blender_objects = << >>
  /\ obj_i = 0 /\ size_name = None /\ r = <<0, 0>> /\ num_tries = 0
  /\ x = 0 /\ y = 0
  /\ restarts = 0 /\ discarded = {}
  /\ BlankRelations
  /\ pc = "for"

\* Fair sampling: the program keeps running, and a draw that can be made in
\* a situation met again and again is not avoided forever.  Only the draws
\* of one feasible plan are asked for.
FairSampling ==
  /\ WF_vars(NextLive)
  /\ \A k \in 0..(MaxObjects - 1) : SF_vars(PlanSize(k)) /\ SF_vars(PlanCandidate(k))

SpecLive == InitLive /\ [][NextLive]_vars /\ FairSampling

\* ------------------------------------------------------------ render_scene
\* The camera location: location[2] is set from the tier j (phi is
\* math.pi*3/10/num_heights*(j+1)), location[0] and location[1] from the
\* azimuth (2 * i - 1) / num_cams * num_heights * math.pi, kept as its
\* numerator (2 * i - 1) * num_heights over num_cams.
\* for j in range(num_heights): phi and the camera height are set.
TierStart ==
  /\ pc = "tier"
  /\ j < num_heights
  /\ camera' = [camera EXCEPT !.tier = j]
  /\ i' = 0
  /\ pc' = "pose"
  /\ UNCHANGED << inputVars, j, filepath, frames, images, written, log, poses,
                  retVars, scene, placeVars, relVars >>

\* Mutant of FileIndex: the tier and the index within the tier change places.
FileIndexSwapped(num_cams, tier, idx) == (num_cams \div num_heights) * idx + tier

\* The number image_template is formatted with:
\* args.num_cams // num_heights * j + i.
FileIndex(num_cams, tier, idx) == (num_cams \div num_heights) * tier + idx

\* for i in range(num_cams // num_heights): the file path and the camera
\* position are set; with len(bpy.data.objects) == 7 add_random_objects is
\* called.
PoseStart ==
  /\ pc = "pose"
  /\ i < args.num_cams \div num_heights
  /\ filepath' = FileIndex(args.num_cams, j, i)
  /\ camera' = [tier |-> j, az |-> (2 * i - 1) * num_heights]
  /\ poses' = Append(poses, [file |-> filepath', camera |-> camera'])
  /\ IF BaseSceneObjects + Cardinality(scene) = 7
       THEN /\ calls' = calls + 1
            /\ Invoke
            /\ UNCHANGED << restarts, discarded >>
       ELSE /\ pc' = "render"
            /\ UNCHANGED << calls, placeVars >>
  /\ UNCHANGED << inputVars, j, i, frames, images, written, log, returns,
                  ret_objects, ret_blender_objects, scene, relVars >>

\* The inner for loop is over: the next tier.
TierEnd ==
  /\ pc = "pose"
  /\ i >= args.num_cams \div num_heights
  /\ j' = j + 1
  /\ pc' = "tier"
  /\ UNCHANGED << inputVars, i, filepath, camera, frames, images, written, log,
                  poses, retVars, scene, placeVars, relVars >>

\* bpy.ops.render.render(write_still=True) returns: the image is written.
RenderOK ==
  /\ pc = "render"
  /\ images' = Append(images, filepath)
  /\ pc' = "record"
  /\ UNCHANGED << inputVars, j, i, filepath, camera, frames, written, log, poses,
                  retVars, scene, placeVars, relVars >>

\* Mutant of RenderFail: the failed call leaves a frame record behind.
RenderFailAppends ==
  /\ pc = "render"
  /\ log < MaxFailures
  /\ log' = log + 1
  /\ frames' = Append(frames,
       [ file_path |-> filepath,
         rotation |-> <<2 * num_heights, args.num_cams>>,
         transform_matrix |-> camera ])
  /\ UNCHANGED << inputVars, pc, j, i, filepath, camera, images, written,
                  poses, retVars, scene, placeVars, relVars >>

\* Mutant of RenderFail: the except clause leaves the while loop, and the
\* driver goes on to the next pose.
RenderFailSkips ==
  /\ pc = "render"
  /\ log < MaxFailures
  /\ log' = log + 1
  /\ i' = i + 1
  /\ pc' = "pose"
  /\ UNCHANGED << inputVars, j, filepath, camera, frames, images, written,
                  poses, retVars, scene, placeVars, relVars >>

\* bpy.ops.render.render raises: except Exception prints it and the while
\* loop goes round.
RenderFail ==
  /\ pc = "render"
  /\ log < MaxFailures
  /\ log' = log + 1
  /\ UNCHANGED << inputVars, pc, j, i, filepath, camera, frames, images, written,
                  poses, retVars, scene, placeVars, relVars >>

\* The construction of frame_data raises after the render returned: the same
\* except clause, and the while loop renders again.
FrameDataFail ==
  /\ pc = "record"
  /\ log < MaxFailures
  /\ log' = log + 1
  /\ pc' = "render"
  /\ UNCHANGED << inputVars, j, i, filepath, camera, frames, images, written,
                  poses, retVars, scene, placeVars, relVars >>

\* frame_data is built, break leaves the while loop, the record is appended
\* to out_data['frames']; rotation is math.radians(stepsize), kept as the
\* fraction <<2 * num_heights, num_cams>> of pi.
AppendFrame ==
  /\ pc = "record"
  /\ frames' = Append(frames,
       [ file_path |-> filepath,
         rotation |-> <<2 * num_heights, args.num_cams>>,
         transform_matrix |-> camera ])
  /\ i' = i + 1
  /\ pc' = "pose"
  /\ UNCHANGED << inputVars, j, filepath, camera, images, written, log, poses,
                  retVars, scene, placeVars, relVars >>

\* The outer for loop is over: json.dump(out_data) to transforms.json.
Finish ==
  /\ pc = "tier"
  /\ j >= num_heights
  /\ written' = Append(written, frames)
  /\ pc' = "done"
  /\ UNCHANGED << inputVars, j, i, filepath, camera, frames, images, log, poses,
                  retVars, scene, placeVars, relVars >>

Next ==
  \/ TierStart
  \/ PoseStart
  \/ TierEnd
  \/ RenderOK
  \/ RenderFail
  \/ FrameDataFail
  \/ AppendFrame
  \/ Finish
  \/ ChooseSize
  \/ Candidate
  \/ Exhausted
  \/ AddObject
  \/ AttrError
  \/ Return

\* The catalogs render_scene is run on.
DriverCatalogs == { <<SmallProperties, NoCombos>>, <<SmallProperties, BadColorCombos>> }

\* render_scene at line 182, for the arguments main passes it.
Init ==
  /\ \E nobj \in 0..MaxObjects, cams \in 1..MaxCams, cat \in DriverCatalogs :
       /\ args = Args(nobj, 1, cams, cat[2])
       /\ properties = cat[1]
  /\ j = 0 /\ i = 0 /\ filepath = -1
  /\ camera = [tier |-> -1, az |-> 0]
  /\ frames = << >> /\ images = << >> /\ written = << >> /\ log = 0
  /\ poses = << >>
  /\ BlankPlacement
  /\ BlankRelations
  /\ pc = "tier"

Spec == Init /\ [][Next]_vars

\* render_scene for scenes whose placement always returns (no object, or one
\* object of the one-color catalog), followed to the end of the run under
\* fairness.  A render call that raises beyond MaxFailures times leaves the
\* state as it is (log is capped), so a renderer that fails forever is the
\* behavior that stays at the render call.
NextRender ==
  \/ TierStart
  \/ PoseStart
  \/ TierEnd
  \/ RenderOK
  \/ RenderFail
  \/ FrameDataFail
  \/ AppendFrame
  \/ Finish
  \/ ChooseSize
  \/ Candidate
  \/ AddObject
  \/ Return

InitRender ==
  /\ \E nobj \in {0, 1}, cams \in 1..MaxCams :
       args = Args(nobj, 1, cams, NoCombos)
  /\ properties = SmallProperties
  /\ j = 0 /\ i = 0 /\ filepath = -1
  /\ camera = [tier |-> -1, az |-> 0]
  /\ frames = << >> /\ images = << >> /\ written = << >> /\ log = 0
  /\ poses = << >>
  /\ BlankPlacement
  /\ BlankRelations
  /\ pc = "tier"

\* The steps of the program itself, the outcome of a render call apart.
DriverStep ==
  \/ TierStart
  \/ PoseStart
  \/ TierEnd
  \/ AppendFrame
  \/ Finish
  \/ ChooseSize
  \/ Candidate
  \/ AddObject
  \/ Return

\* The program takes its next step when it has one; the renderer does not
\* raise forever, and the try block of a pose (the render call and the
\* construction of frame_data) is not kept from completing forever.
FairRender ==
  /\ WF_vars(DriverStep)
  /\ WF_vars(RenderOK)
  /\ SF_vars(AppendFrame)

SpecRender == InitRender /\ [][NextRender]_vars /\ FairRender

\* ------------------------------------------------ compute_all_relationships
\* scene_struct['directions'] as the items of the dict: the six names with
\* their direction vectors.
StandardDirections ==
  { <<"left", <<-1, 0, 0>>>>, <<"right", <<1, 0, 0>>>>,
    <<"front", <<0, -1, 0>>>>, <<"behind", <<0, 1, 0>>>>,
    <<"above", <<0, 0, 1>>>>, <<"below", <<0, 0, -1>>>> }

\* A scene_struct['directions'] with fewer names: one opposite pair and
\* 'above'.
LeftRightDirections ==
  { <<"left", <<-1, 0, 0>>>>, <<"right", <<1, 0, 0>>>>, <<"above", <<0, 0, 1>>>> }

\* Object records of a scene_struct: '3d_coords' and one more field.
RelRecords ==
  [ coords : {<<0, 0, 0>>, <<2, 0, 0>>, <<0, 2, 0>>, <<2, 2, 0>>, <<1, 1, 0>>},
    color : {"red", "blue"} ]

RECURSIVE SeqsUpTo(_, _)
SeqsUpTo(S, n) ==
  IF n = 0 THEN {<< >>}
  ELSE LET shorter == SeqsUpTo(S, n - 1)
       IN  shorter \cup {Append(q, e) : q \in {t \in shorter : Len(t) = n - 1}, e \in S}

\* Mutant of Dot: diff holds the absolute differences of the coordinates.
Dot_abs(coords1, coords2, direction_vec) ==
  LET AbsDiff(k) == IF coords2[k] >= coords1[k] THEN coords2[k] - coords1[k]
                                            ELSE coords1[k] - coords2[k]
  IN  AbsDiff(1) * direction_vec[1] + AbsDiff(2) * direction_vec[2]
        + AbsDiff(3) * direction_vec[3]

\* sum(diff[k] * direction_vec[k] for k in [0, 1, 2]), diff being
\* coords2 - coords1.
Dot(coords1, coords2, direction_vec) ==
  (coords2[1] - coords1[1]) * direction_vec[1]
  + (coords2[2] - coords1[2]) * direction_vec[2]
  + (coords2[3] - coords1[3]) * direction_vec[3]

\* Mutant of sorted: the members in decreasing order.
RECURSIVE sorted_reverse(_)
sorted_reverse(S) ==
  IF S = {} THEN << >>
  ELSE LET m == CHOOSE e \in S : \A o \in S : e >= o
       IN  <<m>> \o sorted_reverse(S \ {m})

\* sorted(list(related)): the members in increasing order.
RECURSIVE sorted(_)
sorted(S) ==
  IF S = {} THEN << >>
  ELSE LET m == CHOOSE e \in S : \A o \in S : e <= o
       IN  <<m>> \o sorted(S \ {m})

\* Mutant of related: the test is dot >= eps.
related_geq(objs, direction_vec, e, a) ==
  { b - 1 : b \in { c \in 1..Len(objs) :
                      /\ ~ (objs[a] = objs[c])
                      /\ Dot(objs[a].coords, objs[c].coords, direction_vec) >= e } }

\* The set related built for object a (1-based here; the indices added are
\* the 0-based j of enumerate): objects equal to obj1 are skipped, the others
\* are added when dot > eps.
related(objs, direction_vec, e, a) ==
  { b - 1 : b \in { c \in 1..Len(objs) :
                      /\ ~ (objs[a] = objs[c])
                      /\ Dot(objs[a].coords, objs[c].coords, direction_vec) > e } }

\* The dict returned, as its items: for each direction but 'above' and
\* 'below', the list over the objects of their sorted related lists.
compute_all_relationships(ss, e) ==
  { <<d[1], [a \in 1..Len(ss.objects) |-> sorted(related(ss.objects, d[2], e, a))]>> :
      d \in {dd \in ss.directions : dd[1] # "above" /\ dd[1] # "below"} }

\* Mutant of ComputeRelationships: the 'above' and 'below' entries are removed
\* from scene_struct['directions'] instead of being skipped.
ComputeRelationshipsInPlace ==
  /\ pc \in {"rel", "rel_done"}
  /\ rel_calls < MaxRelCalls
  /\ all_relationships' = compute_all_relationships(scene_struct, eps)
  /\ scene_struct' = [scene_struct EXCEPT !.directions =
                        {dd \in @ : dd[1] # "above" /\ dd[1] # "below"}]
  /\ rel_calls' = rel_calls + 1
  /\ pc' = "rel_done"
  /\ UNCHANGED << inputVars, driverVars, retVars, scene, placeVars, eps >>

\* A call of compute_all_relationships(scene_struct, eps), the first or a
\* later one on the same scene_struct: the function reads scene_struct and
\* builds a new dict.
ComputeRelationships ==
  /\ pc \in {"rel", "rel_done"}
  /\ rel_calls < MaxRelCalls
  /\ all_relationships' = compute_all_relationships(scene_struct, eps)
  /\ rel_calls' = rel_calls + 1
  /\ pc' = "rel_done"
  /\ UNCHANGED << inputVars, driverVars, retVars, scene, placeVars, scene_struct, eps >>

NextRel == ComputeRelationships

\* Any scene_struct of up to MaxRelObjects objects and any eps of EpsChoices.
EpsChoices == {-1, 0, 1}

InitRel ==
  /\ args = Args(0, 1, num_heights, NoCombos)
  /\ properties = SmallProperties
  /\ j = 0 /\ i = 0 /\ filepath = -1
  /\ camera = [tier |-> -1, az |-> 0]
  /\ frames = << >> /\ images = << >> /\ written = << >> /\ log = 0
  /\ poses = << >>
  /\ BlankPlacement
  /\ scene_struct \in [ objects : SeqsUpTo(RelRecords, MaxRelObjects),
                        directions : {StandardDirections, LeftRightDirections} ]
  /\ eps \in EpsChoices
  /\ all_relationships = {}
  /\ rel_calls = 0
  /\ pc = "rel"

SpecRel == InitRel /\ [][NextRel]_vars

\* ------------------------------------------------ claims: add_random_objects
Abs(n) == IF n < 0 THEN -n ELSE n

\* The accepted entries of pos are pairwise spaced: for any two of them the
\* planar distance minus the two recorded radii is at least min_dist.
PairwiseSpaced(pos) ==
  \A a \in 1..Len(pos), b \in 1..Len(pos) :
    a # b => ~ TooClose(pos[a][1] - pos[b][1], pos[a][2] - pos[b][2],
                        pos[a][3], pos[b][3], args.min_dist)

\* C1: at every step of an attempt and in every returned placement, any two
\* accepted entries are apart by at least min_dist plus their recorded radii
\* (the size scale, divided by sqrt(2) for a Cube); the returned records carry
\* the positions of those entries.
C1_NonOverlap ==
  /\ PairwiseSpaced(positions)
  /\ returns > 0 =>
       /\ Len(ret_objects) = Len(positions)
       /\ \A k \in 1..Len(positions) :
            ret_objects[k].coords = <<positions[k][1], positions[k][2]>>

\* A returned placement of two objects, one of them a Cube, after a restart.
C1_Witness ==
  /\ returns > 0
  /\ restarts > 0
  /\ Len(positions) = 2
  /\ \E k \in 1..2 : positions[k][3][2] > 0

\* C2: whenever add_random_objects has returned, both returned lists have
\* exactly num_objects entries, the k-th entry being the k-th slot of the
\* final invocation, and no handle of an abandoned invocation is among them.
C2_NoPartialList ==
  returns > 0 =>
    /\ Len(ret_objects) = args.num_objects
    /\ Len(ret_blender_objects) = args.num_objects
    /\ \A k \in 1..Len(ret_blender_objects) :
         ret_blender_objects[k] = <<restarts, k - 1>>
    /\ \A k \in 1..Len(ret_objects) :
         /\ k <= Len(positions)
         /\ ret_objects[k].coords = <<positions[k][1], positions[k][2]>>
    /\ Range(ret_blender_objects) \cap discarded = {}

\* A return with the full count after an invocation that had placed an object
\* was abandoned.
C2_Witness ==
  /\ returns > 0
  /\ restarts > 0
  /\ discarded # {}
  /\ args.num_objects = MaxObjects
  /\ Len(ret_objects) = MaxObjects

\* C3: the scene graph holds exactly the objects of the current invocation:
\* every object of an abandoned invocation has been deleted when the next
\* one starts (at slot 0, with empty lists), and on return the scene graph
\* holds exactly num_objects placed objects, the returned handles.
C3_RestartDiscardsAll ==
  /\ scene = Range(blender_objects)
  /\ \A h \in scene : h[1] = restarts
  /\ scene \cap discarded = {}
  /\ obj_i = 0 => (positions = << >> /\ objects = << >> /\ scene = {})
  /\ returns > 0 =>
       /\ scene = Range(ret_blender_objects)
       /\ Cardinality(scene) = args.num_objects

\* A return after an abandoned invocation whose object was deleted.
C3_Witness ==
  /\ returns > 0
  /\ restarts > 0
  /\ discarded # {}
  /\ Cardinality(scene) = MaxObjects

\* C7: in every returned placement any two objects are at least margin apart
\* along each of the four cardinal directions.
C7_MarginKept ==
  returns > 0 =>
    \A a \in 1..Len(positions), b \in 1..Len(positions) :
      a # b =>
        \A d \in {<<-1, 0>>, <<1, 0>>, <<0, -1>>, <<0, 1>>} :
          Abs((positions[b][1] - positions[a][1]) * d[1]
              + (positions[b][2] - positions[a][2]) * d[2]) >= args.margin

C8_FailFast == pc = "error" => scene = {}

\* A record keeps to the restriction table: its shape is a key and its color
\* one of that key's colors.
InTable(rec) ==
  \E combo \in args.shape_color_combos.items :
    combo[1] = rec.shape /\ rec.color \in combo[2]

\* C10: with a restriction table, every object record, in the list being
\* built and in the list returned, pairs a shape of the table with a color
\* the table permits for it.
C10_CombosRespected ==
  args.shape_color_combos.given =>
    /\ \A k \in 1..Len(objects) : InTable(objects[k])
    /\ \A k \in 1..Len(ret_objects) : InTable(ret_objects[k])

\* A returned placement of two objects under a table, after a restart.
C10_Witness ==
  /\ args.shape_color_combos.given
  /\ returns > 0
  /\ restarts > 0
  /\ Len(ret_objects) = 2

\* The candidates drawn for the current slot, counted by num_tries, never
\* exceed max_retries.
C13_DrawsWithinBudget ==
  /\ num_tries >= 0
  /\ num_tries <= args.max_retries

\* A candidate is drawn only while fewer than max_retries have been; the
\* attempt is abandoned from the state with max_retries rejected candidates
\* and from no other.
C13_RestartStep ==
  /\ num_tries' = num_tries + 1 => pc = "try" /\ num_tries < args.max_retries
  /\ restarts' # restarts => pc = "try" /\ num_tries = args.max_retries
  /\ pc = "try" /\ num_tries = args.max_retries => restarts' = restarts + 1 /\ pc' = "for"
  /\ pc = "try" /\ num_tries < args.max_retries => restarts' = restarts /\ pc' \in {"try", "attrs"}
  /\ pc = "attrs" => restarts' = restarts /\ pc' \in {"for", "error"}

\* C13: for each slot of each attempt at most max_retries candidates are drawn
\* (num_tries counts them); a step that abandons the attempt is taken exactly
\* from the state in which max_retries candidates of the current slot have been
\* drawn and the last of them rejected, never after fewer; a slot whose
\* candidate is accepted (on its max_retries-th draw or earlier) goes on to
\* add_object without a restart.
C13_MaxRetries == [] C13_DrawsWithinBudget /\ [][C13_RestartStep]_vars

\* After a restart, a slot has had its candidate accepted on the last draw
\* max_retries permits.
C13_Witness ==
  /\ restarts > 0
  /\ args.max_retries = MaxRetries
  /\ pc = "attrs"
  /\ num_tries = args.max_retries
  /\ Len(positions) > 0

\* ------------------------------------------------------ claims: render_scene
\* Two poses are the same camera position: the same tier and azimuths a whole
\* number of turns apart (azimuth is az / num_cams * pi).
SamePose(p, q) ==
  /\ p.camera.tier = q.camera.tier
  /\ (p.camera.az - q.camera.az) % (2 * args.num_cams) = 0

PosesOfTier(t) == Cardinality({k \in 1..Len(poses) : poses[k].camera.tier = t})

\* C4: when the camera loop is over it has produced exactly num_cams poses,
\* each with one rendered image and one frame record, the poses are pairwise
\* distinct, and the tiers' pose counts differ by at most 1.
C4_ExactlyNumCams ==
  pc = "done" =>
    /\ Len(poses) = args.num_cams
    /\ Len(frames) = args.num_cams
    /\ Cardinality(Range(images)) = args.num_cams
    /\ \A a \in 1..Len(poses), b \in 1..Len(poses) :
         a # b => ~ SamePose(poses[a], poses[b])
    /\ \A t1 \in 0..(num_heights - 1), t2 \in 0..(num_heights - 1) :
         Abs(PosesOfTier(t1) - PosesOfTier(t2)) <= 1

\* The frame records are the records of the first Len(frames) poses, in pose
\* order, each of a pose whose image has been rendered.
FramesFollowPoses ==
  /\ Len(frames) <= Len(poses)
  /\ Len(poses) <= Len(frames) + 1
  /\ \A k \in 1..Len(frames) :
       /\ frames[k].file_path = poses[k].file
       /\ frames[k].transform_matrix = poses[k].camera
       /\ frames[k].file_path \in Range(images)
  /\ \A k \in 1..Len(images) : \E n \in 1..Len(poses) : images[k] = poses[n].file
  /\ Len(written) <= 1
  /\ pc = "done" =>
       /\ Len(written) = 1
       /\ written[1] = frames
       /\ Len(frames) = Len(poses)
       /\ {frames[k].file_path : k \in 1..Len(frames)} = Range(images)

\* The frame list only grows, by one record at a time, the record of the
\* pose whose render call has just returned; a step that prints an
\* exception appends nothing; nothing is appended once the manifest is
\* written.
FramesAppendOnly ==
  /\ frames' # frames =>
       /\ pc = "record"
       /\ Len(images) > 0 /\ images[Len(images)] = filepath
       /\ Len(frames') = Len(frames) + 1
       /\ SubSeq(frames', 1, Len(frames)) = frames
       /\ frames'[Len(frames')].file_path = filepath
       /\ ~ \E k \in 1..Len(frames) : frames[k].file_path = filepath
  /\ log' # log => frames' = frames
  /\ written # << >> => (frames' = frames /\ written' = written)

\* C6: image and manifest entry go together: the frame list is append-only,
\* a pose's record is appended once and only after its render call returned,
\* a failed call appends nothing, the records are in pose order, and the
\* manifest, serialized once at the end, holds one record per rendered pose.
C6_ImageAndRecord == [] FramesFollowPoses /\ [][FramesAppendOnly]_vars

\* The manifest is written with a record for each of eight rendered poses,
\* after a render call had failed.
C6_Witness ==
  /\ pc = "done"
  /\ Len(written) = 1
  /\ Len(frames) = num_heights
  /\ log > 0

\* ------------------------------------------ claims: compute_all_relationships
\* The direction vector of a name of scene_struct['directions'].
DirectionVec(name) == (CHOOSE d \in scene_struct.directions : d[1] = name)[2]

\* output[name], the table of a name of the returned dict.
Output(name) == (CHOOSE t \in all_relationships : t[1] = name)[2]

HorizontalNames ==
  {d[1] : d \in {dd \in scene_struct.directions : dd[1] # "above" /\ dd[1] # "below"}}

\* C5: for every direction but 'above' and 'below' and all indices a, b (0-based
\* a - 1, b - 1): b is in output[rel][a] exactly when a # b and the dot product
\* of position_b - position_a with the direction of rel exceeds eps.
C5_DotProductTest ==
  pc = "rel_done" =>
    \A name \in HorizontalNames :
      /\ \E t \in all_relationships : t[1] = name
      /\ \A a \in 1..Len(scene_struct.objects), b \in 1..Len(scene_struct.objects) :
           (b - 1) \in Range(Output(name)[a])
             <=> /\ a # b
                 /\ Dot(scene_struct.objects[a].coords, scene_struct.objects[b].coords,
                        DirectionVec(name)) > eps

\* The pairs of names of the returned dict whose direction vectors are
\* opposite (d and -d).
Negated(v) == <<0 - v[1], 0 - v[2], 0 - v[3]>>

OppositePairs ==
  { p \in HorizontalNames \X HorizontalNames : DirectionVec(p[2]) = Negated(DirectionVec(p[1])) }

NumRelObjects == Len(scene_struct.objects)

\* C11: for eps >= 0 and every pair of names with opposite direction vectors
\* ('left'/'right', 'front'/'behind'), the two lists of every object have no
\* index in common.
C11_OppositeDisjoint ==
  pc = "rel_done" /\ eps >= 0 =>
    \A p \in OppositePairs : \A a \in 1..NumRelObjects :
      Range(Output(p[1])[a]) \cap Range(Output(p[2])[a]) = {}

\* An object with another one to its left and a third to its right, eps = 0.
C11_Witness ==
  /\ pc = "rel_done" /\ eps = 0
  /\ <<"left", "right">> \in OppositePairs
  /\ \E a \in 1..NumRelObjects :
       Output("left")[a] # << >> /\ Output("right")[a] # << >>

\* A call made once a table has been returned for scene_struct returns that
\* table again.
TableKept ==
  pc = "rel_done" => all_relationships' = all_relationships

StrictlyIncreasing(q) == \A k \in 1..(Len(q) - 1) : q[k] < q[k + 1]

\* C16: the keys of the returned dict are the direction names other than
\* 'above' and 'below', one key each (4 for the six standard directions); each
\* value has one entry per object, in object order (an index b in entry a is
\* an object whose dot product with object a exceeds eps), and each entry
\* is a strictly increasing list of indices of 0..n-1.
C16_TableShape ==
  pc = "rel_done" =>
    /\ {t[1] : t \in all_relationships} = HorizontalNames
    /\ Cardinality(all_relationships) = Cardinality(HorizontalNames)
    /\ scene_struct.directions = StandardDirections => Cardinality(all_relationships) = 4
    /\ \A t \in all_relationships :
         /\ DOMAIN t[2] = 1..NumRelObjects
         /\ \A a \in 1..NumRelObjects :
              /\ StrictlyIncreasing(t[2][a])
              /\ Range(t[2][a]) \subseteq 0..(NumRelObjects - 1)
              /\ \A b \in Range(t[2][a]) :
                   Dot(scene_struct.objects[a].coords, scene_struct.objects[b + 1].coords,
                       DirectionVec(t[1])) > eps

\* Three objects, one of them with the two others in one of its lists.
C16_Witness ==
  /\ pc = "rel_done" /\ NumRelObjects = 3
  /\ \E t \in all_relationships : \E a \in 1..3 : Len(t[2][a]) = 2

\* C19: for names with opposite direction vectors and objects a # b, b is
\* in the first name's list of a exactly when a is in the second name's list
\* of b; and for eps >= 0 no name lists b for a and a for b.
C19_ConverseAsymmetric ==
  pc = "rel_done" =>
    /\ \A p \in OppositePairs : \A a, b \in 1..NumRelObjects :
         a # b => ((b - 1) \in Range(Output(p[1])[a]) <=> (a - 1) \in Range(Output(p[2])[b]))
    /\ eps >= 0 =>
         \A name \in HorizontalNames : \A a, b \in 1..NumRelObjects :
           (b - 1) \in Range(Output(name)[a]) => (a - 1) \notin Range(Output(name)[b])

\* Both opposite pairs are present and one object is in front of another.
C19_Witness ==
  /\ pc = "rel_done" /\ eps >= 0
  /\ <<"front", "behind">> \in OppositePairs
  /\ \E a, b \in 1..NumRelObjects :
       a # b /\ (b - 1) \in Range(Output("front")[a]) /\ (a - 1) \in Range(Output("behind")[b])

\* ------------------------------------------------- claims: the retry loop
\* A pose is set only when every earlier pose has its record, the manifest is
\* written only when every pose has, and the pose being rendered is the last
\* one set.
RetryInv ==
  /\ Len(frames) <= Len(poses) /\ Len(poses) <= Len(frames) + 1
  /\ pc \in {"tier", "pose", "done"} => Len(frames) = Len(poses)
  /\ pc \in {"render", "record"} =>
       /\ Len(poses) = Len(frames) + 1
       /\ poses[Len(poses)] = [file |-> filepath, camera |-> camera]
  /\ \A k \in 1..Len(written) : Len(written[k]) = Len(poses)

\* A step that prints an exception goes back to the render call of the same
\* pose, with the camera, the objects and the manifest as they were; from the
\* render call the only steps are render calls.
RetryStep ==
  /\ log' # log =>
       /\ pc' = "render"
       /\ UNCHANGED << j, i, filepath, camera, poses, frames, written, scene,
                       ret_objects, ret_blender_objects >>
  /\ pc = "render" =>
       /\ pc' \in {"render", "record"}
       /\ UNCHANGED << j, i, filepath, camera, poses, frames, written, scene >>

\* C14: after a render call of a pose raises, the next step is a render call
\* of the same pose with camera, objects and manifest unchanged; no later pose
\* is set and the manifest is not written until the pose has its record (so
\* a run whose render call raises forever never ends); and when the renderer
\* does not raise forever, every pose that reaches its render call gets its
\* record.
C14_RetryUntilRendered ==
  /\ [] RetryInv
  /\ [][RetryStep]_vars
  /\ (pc = "render") ~> (Len(frames) = Len(poses))

\* A render call has raised for a pose after the first, with an object in
\* the scene, and the pose is at its render call again.
C14_Witness ==
  /\ pc = "render" /\ log > 0
  /\ Len(frames) > 0
  /\ scene # {}

\* ------------------------------------------------- claims: scene and poses
\* C15: in every run add_random_objects is invoked at most once and, by the
\* first render call, exactly once; every pose renders the objects that call
\* returned; and the manifest is written only after the scene was built.
C15_BuiltOnce ==
  /\ calls <= 1
  /\ pc \in {"render", "record"} =>
       /\ calls = 1 /\ returns = 1
       /\ scene = Range(ret_blender_objects)
  /\ written # << >> => calls = 1 /\ returns = 1

\* C17: for num_cams >= 8, with n = num_cams // 8 poses in a tier, consecutive
\* poses of a tier differ in azimuth by exactly 2*pi/n.  The azimuth of a pose
\* is camera.az * pi / num_cams, so the difference d of two numerators is
\* 2*pi/n exactly when d * n = 2 * num_cams.
C17_EvenAzimuth ==
  args.num_cams >= num_heights =>
    \A k \in 1..(Len(poses) - 1) :
      poses[k].camera.tier = poses[k + 1].camera.tier =>
        (poses[k + 1].camera.az - poses[k].camera.az) * (args.num_cams \div num_heights)
          = 2 * args.num_cams

====
